---- MODULE Spec2Model ----
(***************************************************************************)
(* A model of the sm2-sd-2023 selective-disclosure cryptosuite:            *)
(*   - the proof-value codec (lib/proofValue.js),                          *)
(*   - the Signer (sign.js), the Discloser (disclose.js),                  *)
(*   - the Verifier (lib/verify.js).                                       *)
(*                                                                         *)
(* Bytes and characters are naturals 0..255; a byte array and a string are *)
(* both sequences of them.  A JavaScript value is a record [t, v] whose    *)
(* tag t names its type.  The outcome of a call that may throw is a record *)
(* [ok, v]: ok = TRUE with the returned value, or ok = FALSE with the name *)
(* of the error.                                                           *)
(*                                                                         *)
(* The external collaborators (canonicalization, HMAC, hashing, SM2) are   *)
(* modelled at their interface by small deterministic functions.           *)
(***************************************************************************)
EXTENDS Integers, Sequences, FiniteSets

\* ------------------------------------------------------------------ bounds

\* The largest number of canonical statements of a document.
MaxStatements == 3

\* ----------------------------------------------------------- JS values

Bytes(s) == [t |-> "bytes", v |-> s]
Str(s) == [t |-> "str", v |-> s]
IntV(n) == [t |-> "int", v |-> n]
NaN == [t |-> "nan", v |-> 0]
Arr(s) == [t |-> "arr", v |-> s]
MapV(s) == [t |-> "map", v |-> s]
Undefined == [t |-> "undef", v |-> 0]
\* An Error object with its message.
ErrorV(msg) == [t |-> "error", v |-> msg]

Ok(x) == [ok |-> TRUE, v |-> x]
Err(e) == [ok |-> FALSE, v |-> e]

\* n copies of the byte b.
Fill(n, b) == [i \in 1..n |-> b]

\* s.slice(1), s.slice(4), buffer.subarray(3): s without its first n elements.
Slice(s, n) == IF n >= Len(s) THEN <<>> ELSE SubSeq(s, n + 1, Len(s))

\* ---------------------------------------------------------- constants

CBOR_PREFIX_BASE == <<217, 93, 0>>
CBOR_PREFIX_DERIVED == <<217, 93, 1>>

SignatureLength == 64
PublicKeyLength == 35
HmacKeyLength == 32
HashLength == 32

\* 'u', the multibase tag of base64url without padding.
TagU == 117
\* "c14n"
C14N == <<99, 49, 52, 110>>

\* ------------------------------------------------------------ base64url

\* The character of a 6-bit value in the base64url alphabet A-Z a-z 0-9 - _
B64Char(x) ==
  IF x < 26 THEN 65 + x
  ELSE IF x < 52 THEN 97 + (x - 26)
  ELSE IF x < 62 THEN 48 + (x - 52)
  ELSE IF x = 62 THEN 45
  ELSE 95

\* The 6-bit value of a character; 0 for a character outside the alphabet.
B64Index(c) ==
  IF c >= 65 /\ c <= 90 THEN c - 65
  ELSE IF c >= 97 /\ c <= 122 THEN c - 97 + 26
  ELSE IF c >= 48 /\ c <= 57 THEN c - 48 + 52
  ELSE IF c = 45 THEN 62
  ELSE IF c = 95 THEN 63
  ELSE 0

\* base64url.encode(bytes): three bytes make four characters, no padding.
Base64UrlEncode(b) ==
  LET n == Len(b)
      outLen == (n \div 3) * 4 + (IF n % 3 = 0 THEN 0 ELSE (n % 3) + 1)
      At(k) == IF k <= n THEN b[k] ELSE 0
      Sextet(i) ==
        LET g == (i - 1) \div 4
            r == (i - 1) % 4
            b1 == At(3 * g + 1)
            b2 == At(3 * g + 2)
            b3 == At(3 * g + 3)
        IN  IF r = 0 THEN b1 \div 4
            ELSE IF r = 1 THEN (b1 % 4) * 16 + (b2 \div 16)
            ELSE IF r = 2 THEN (b2 % 16) * 4 + (b3 \div 64)
            ELSE b3 % 64
  IN  [i \in 1..outLen |-> B64Char(Sextet(i))]

\* base64url.decode(string): a length of 1 modulo 4 is illegal; the bits
\* left over after the last whole byte are dropped.
Base64UrlDecode(s) ==
  LET n == Len(s)
      outLen == (n \div 4) * 3 + (IF n % 4 = 0 THEN 0 ELSE (n % 4) - 1)
      At(k) == IF k <= n THEN B64Index(s[k]) ELSE 0
      Byte(j) ==
        LET g == (j - 1) \div 3
            r == (j - 1) % 3
            e1 == At(4 * g + 1)
            e2 == At(4 * g + 2)
            e3 == At(4 * g + 3)
            e4 == At(4 * g + 4)
        IN  IF r = 0 THEN e1 * 4 + (e2 \div 16)
            ELSE IF r = 1 THEN (e2 % 16) * 16 + (e3 \div 4)
            ELSE (e3 % 4) * 64 + e4
  IN  IF n % 4 = 1 THEN Err("Error")
      ELSE Ok([j \in 1..outLen |-> Byte(j)])

\* ----------------------------------------------------------------- CBOR

\* The head of a CBOR item: the major type and its argument (a value or a
\* length), in the shortest form.
CborHead(major, n) ==
  IF n < 24 THEN <<major * 32 + n>>
  ELSE IF n < 256 THEN <<major * 32 + 24, n>>
  ELSE <<major * 32 + 25, (n \div 256) % 256, n % 256>>

\* The order cborg gives the entries of a map: by encoded key, the shorter
\* first, then bytewise.
BytesLess(a, b) ==
  \/ Len(a) < Len(b)
  \/ /\ Len(a) = Len(b)
     /\ \E i \in 1..Len(a) : a[i] < b[i] /\ \A j \in 1..(i - 1) : a[j] = b[j]

RECURSIVE Concat(_)
Concat(ss) == IF ss = <<>> THEN <<>> ELSE Head(ss) \o Concat(Tail(ss))

RECURSIVE CborEncode(_)
RECURSIVE SortEntries(_)

\* Insert the entry e into the sorted list s.
InsertEntry(e, s) ==
  LET before == {i \in 1..Len(s) : ~BytesLess(CborEncode(e[1]), CborEncode(s[i][1]))}
      k == Cardinality(before)
  IN  SubSeq(s, 1, k) \o <<e>> \o SubSeq(s, k + 1, Len(s))

SortEntries(s) ==
  IF Len(s) <= 1 THEN s ELSE InsertEntry(Head(s), SortEntries(Tail(s)))

\* cborg.encode(value, {useMaps: true})
CborEncode(x) ==
  CASE x.t = "int" ->
         IF x.v >= 0 THEN CborHead(0, x.v) ELSE CborHead(1, (-1) - x.v)
    [] x.t = "nan" -> <<249, 126, 0>>
    [] x.t = "undef" -> <<247>>
    [] x.t = "bytes" -> CborHead(2, Len(x.v)) \o x.v
    [] x.t = "str" -> CborHead(3, Len(x.v)) \o x.v
    [] x.t = "arr" ->
         CborHead(4, Len(x.v)) \o Concat([i \in 1..Len(x.v) |-> CborEncode(x.v[i])])
    [] x.t = "map" ->
         LET es == SortEntries(x.v)
         IN  CborHead(5, Len(es)) \o
             Concat([i \in 1..Len(es) |->
                       CborEncode(es[i][1]) \o CborEncode(es[i][2])])

\* Map.prototype.set on a list of <<key, value>> entries kept in insertion
\* order: an existing key keeps its place and takes the new value.
MapSet(m, k, val) ==
  IF \E i \in 1..Len(m) : m[i][1] = k
  THEN [i \in 1..Len(m) |-> IF m[i][1] = k THEN <<k, val>> ELSE m[i]]
  ELSE Append(m, <<k, val>>)

MapHas(m, k) == \E i \in 1..Len(m) : m[i][1] = k
MapGet(m, k) == m[CHOOSE i \in 1..Len(m) : m[i][1] = k][2]
MapKeys(m) == {m[i][1] : i \in 1..Len(m)}
\* The entries of a map as a set: what two maps are compared by.
MapEntries(m) == {m[i] : i \in 1..Len(m)}

\* One decoded item: [ok, v, next], next being the position after it.
Item(x, next) == [ok |-> TRUE, v |-> x, next |-> next]
NoItem == [ok |-> FALSE, v |-> Undefined, next |-> 0]

\* The argument of the head at position p: [ok, n, next].
CborArg(b, p) ==
  LET ai == b[p] % 32
  IN  IF ai < 24 THEN [ok |-> TRUE, n |-> ai, next |-> p + 1]
      ELSE IF ai = 24 /\ p + 1 <= Len(b)
        THEN [ok |-> TRUE, n |-> b[p + 1], next |-> p + 2]
      ELSE IF ai = 25 /\ p + 2 <= Len(b)
        THEN [ok |-> TRUE, n |-> b[p + 1] * 256 + b[p + 2], next |-> p + 3]
      ELSE [ok |-> FALSE, n |-> 0, next |-> 0]

RECURSIVE CborItem(_, _)
RECURSIVE CborItems(_, _, _, _)
RECURSIVE CborPairs(_, _, _, _)

\* n items from position p, appended to acc.
CborItems(b, p, n, acc) ==
  IF n = 0 THEN Item(acc, p)
  ELSE LET it == CborItem(b, p)
       IN  IF ~it.ok THEN NoItem
           ELSE CborItems(b, it.next, n - 1, Append(acc, it.v))

\* n key/value pairs from position p, set into the map acc.
CborPairs(b, p, n, acc) ==
  IF n = 0 THEN Item(acc, p)
  ELSE LET k == CborItem(b, p)
       IN  IF ~k.ok THEN NoItem
           ELSE LET val == CborItem(b, k.next)
                IN  IF ~val.ok THEN NoItem
                    ELSE CborPairs(b, val.next, n - 1, MapSet(acc, k.v, val.v))

CborItem(b, p) ==
  IF p > Len(b) THEN NoItem
  ELSE
    LET major == b[p] \div 32
        arg == CborArg(b, p)
    IN  IF major = 7 THEN
          IF b[p] = 247 THEN Item(Undefined, p + 1)
          ELSE IF b[p] = 249 /\ p + 2 <= Len(b) /\ b[p + 1] = 126 /\ b[p + 2] = 0
            THEN Item(NaN, p + 3)
          ELSE NoItem
        ELSE IF ~arg.ok THEN NoItem
        ELSE IF major = 0 THEN Item(IntV(arg.n), arg.next)
        ELSE IF major = 1 THEN Item(IntV((-1) - arg.n), arg.next)
        ELSE IF major = 2 \/ major = 3 THEN
          IF arg.next + arg.n - 1 > Len(b) THEN NoItem
          ELSE LET s == SubSeq(b, arg.next, arg.next + arg.n - 1)
               IN  Item(IF major = 2 THEN Bytes(s) ELSE Str(s), arg.next + arg.n)
        ELSE IF major = 4 THEN
          LET its == CborItems(b, arg.next, arg.n, <<>>)
          IN  IF its.ok THEN Item(Arr(its.v), its.next) ELSE NoItem
        ELSE IF major = 5 THEN
          LET ps == CborPairs(b, arg.next, arg.n, <<>>)
          IN  IF ps.ok THEN Item(MapV(ps.v), ps.next) ELSE NoItem
        ELSE NoItem

\* cborg.decode(bytes, {useMaps: true, tags}): exactly one item and nothing
\* after it.
CborDecode(b) ==
  LET it == CborItem(b, 1)
  IN  IF it.ok /\ it.next = Len(b) + 1 THEN Ok(it.v) ELSE Err("Error")

\* -------------------------------------------------------- proofValue.js

IsUint8Array(x) == x.t = "bytes"
IsUint8ArrayOfLength(x, n) == x.t = "bytes" /\ Len(x.v) = n
IsString(x) == x.t = "str"

\* The bytes of the buffers one after the other.
ConcatBuffers(buffers) == Concat(buffers)

\* Whether buffer[i] === prefix[i] for every i of the prefix; an index past
\* the end of the buffer reads undefined, which equals no byte.
StartsWithBytes(buffer, prefix) ==
  \A i \in 1..Len(prefix) : i <= Len(buffer) /\ buffer[i] = prefix[i]

\* _assertProofValue: the proof value is a string and its tag is 'u'.
AssertProofValue(proofValue) ==
  IF ~IsString(proofValue) THEN Err("proofValue must be a string")
  ELSE IF Len(proofValue.v) = 0 \/ proofValue.v[1] # TagU
    THEN Err("only base64url multibase encoding is supported")
  ELSE Ok(TRUE)

\* The prefix check left out: every proof value passes for the kind.
IsProofValueOfAnyKind(proofValue) == Ok(TRUE)

\* _isBaseProofValue and _isDerivedProofValue, for the given prefix.
IsProofValueOfKind(proofValue, prefix) ==
  LET asserted == AssertProofValue(proofValue)
      decoded == Base64UrlDecode(Slice(proofValue.v, 1))
  IN  IF ~asserted.ok THEN asserted
      ELSE IF ~decoded.ok THEN decoded
      ELSE Ok(StartsWithBytes(decoded.v, prefix))

IsBaseProofValue(proofValue) == IsProofValueOfKind(proofValue, CBOR_PREFIX_BASE)
IsDerivedProofValue(proofValue) == IsProofValueOfKind(proofValue, CBOR_PREFIX_DERIVED)

\* _validateBaseProofParams: the first check that fails names the error.
ValidateBaseProofParams(params) ==
  IF ~IsUint8ArrayOfLength(params.baseSignature, SignatureLength)
    THEN Err("baseSignature must be a Uint8Array of length 64")
  ELSE IF ~IsUint8ArrayOfLength(params.publicKey, PublicKeyLength)
    THEN Err("publicKey must be a Uint8Array of length 35")
  ELSE IF ~IsUint8ArrayOfLength(params.hmacKey, HmacKeyLength)
    THEN Err("hmacKey must be a Uint8Array of length 32")
  ELSE IF ~(/\ params.signatures.t = "arr"
            /\ \A i \in 1..Len(params.signatures.v) :
                 IsUint8ArrayOfLength(params.signatures.v[i], SignatureLength))
    THEN Err("signatures must be an array of Uint8Arrays, each of length 64")
  ELSE IF ~(/\ params.mandatoryPointers.t = "arr"
            /\ \A i \in 1..Len(params.mandatoryPointers.v) :
                 IsString(params.mandatoryPointers.v[i]))
    THEN Err("mandatoryPointers must be an array of strings")
  ELSE Ok(TRUE)

\* _validateBaseVerifyDataParams
ValidateBaseVerifyDataParams(params) ==
  IF ~IsUint8ArrayOfLength(params.proofHash, HashLength)
    THEN Err("proofHash must be a Uint8Array of length 32")
  ELSE IF ~IsUint8ArrayOfLength(params.publicKey, PublicKeyLength)
    THEN Err("publicKey must be a Uint8Array of length 35")
  ELSE IF ~IsUint8ArrayOfLength(params.mandatoryHash, HashLength)
    THEN Err("mandatoryHash must be a Uint8Array of length 32")
  ELSE Ok(TRUE)

\* _validateDerivedProofParams: the signatures need only be Uint8Arrays, the
\* label map only a Map of strings to strings.
ValidateDerivedProofParams(params) ==
  IF ~IsUint8ArrayOfLength(params.baseSignature, SignatureLength)
    THEN Err("baseSignature must be a Uint8Array of length 64")
  ELSE IF ~IsUint8ArrayOfLength(params.publicKey, PublicKeyLength)
    THEN Err("publicKey must be a Uint8Array of length 35")
  ELSE IF ~(/\ params.signatures.t = "arr"
            /\ \A i \in 1..Len(params.signatures.v) :
                 IsUint8Array(params.signatures.v[i]))
    THEN Err("signatures must be an array of Uint8Arrays")
  ELSE IF ~(/\ params.labelMap.t = "map"
            /\ \A i \in 1..Len(params.labelMap.v) :
                 /\ IsString(params.labelMap.v[i][1])
                 /\ IsString(params.labelMap.v[i][2]))
    THEN Err("labelMap must be a Map of strings to strings")
  ELSE IF ~(/\ params.mandatoryIndexes.t = "arr"
            /\ \A i \in 1..Len(params.mandatoryIndexes.v) :
                 params.mandatoryIndexes.v[i].t = "int")
    THEN Err("mandatoryIndexes must be an array of integers")
  ELSE Ok(TRUE)

IsDigit(c) == c >= 48 /\ c <= 57
IsWhiteSpace(c) == c = 32 \/ (c >= 9 /\ c <= 13)

RECURSIVE DigitsValue(_, _)
\* The number the leading decimal digits of s denote, continuing from acc.
DigitsValue(s, acc) ==
  IF s = <<>> \/ ~IsDigit(Head(s)) THEN acc
  ELSE DigitsValue(Tail(s), acc * 10 + (Head(s) - 48))

RECURSIVE SkipWhiteSpace(_)
SkipWhiteSpace(s) ==
  IF s # <<>> /\ IsWhiteSpace(Head(s)) THEN SkipWhiteSpace(Tail(s)) ELSE s

\* parseInt(s, 10): leading white space, an optional sign, then the longest
\* run of decimal digits; NaN when there is no digit.
ParseInt(s) ==
  LET t1 == SkipWhiteSpace(s)
      neg == t1 # <<>> /\ Head(t1) = 45
      signed == t1 # <<>> /\ (Head(t1) = 45 \/ Head(t1) = 43)
      t2 == IF signed THEN Tail(t1) ELSE t1
  IN  IF t2 = <<>> \/ ~IsDigit(Head(t2)) THEN NaN
      ELSE IntV(IF neg THEN 0 - DigitsValue(t2, 0) ELSE DigitsValue(t2, 0))

RECURSIVE NatToString(_)
NatToString(n) ==
  IF n < 10 THEN <<48 + n>> ELSE Append(NatToString(n \div 10), 48 + (n % 10))

\* `${k}` for a number k; "NaN" is <<78, 97, 78>>.
NumberToString(k) ==
  IF k.t = "nan" THEN <<78, 97, 78>>
  ELSE IF k.v < 0 THEN <<45>> \o NatToString(0 - k.v)
  ELSE NatToString(k.v)

\* `${k}` for a key k that is a number or a string.
KeyToString(k) == IF k.t = "str" THEN k.v ELSE NumberToString(k)

RECURSIVE CompressEntries(_, _)
\* The loop of _compressLabelMap: each entry set into the new map in turn;
\* base64url.decode throwing ends it.
CompressEntries(entries, acc) ==
  IF entries = <<>> THEN Ok(MapV(acc))
  ELSE LET k == Head(entries)[1]
           val == Head(entries)[2]
           bytes == Base64UrlDecode(Slice(val.v, 1))
       IN  IF ~bytes.ok THEN bytes
           ELSE CompressEntries(Tail(entries),
                  MapSet(acc, ParseInt(Slice(k.v, 4)), Bytes(bytes.v)))

\* _compressLabelMap
CompressLabelMap(labelMap) == CompressEntries(labelMap.v, <<>>)

RECURSIVE DecompressEntries(_, _)
\* The params with the public key and the HMAC key in each other's place.
BaseParamsSwapped(fields) ==
  [baseSignature |-> fields[1], publicKey |-> fields[3], hmacKey |-> fields[2],
   signatures |-> fields[4], mandatoryPointers |-> fields[5]]

\* The loop of _decompressLabelMap; base64url.encode takes bytes only.
DecompressEntries(entries, acc) ==
  IF entries = <<>> THEN Ok(MapV(acc))
  ELSE LET k == Head(entries)[1]
           val == Head(entries)[2]
       IN  IF ~(k.t \in {"int", "nan", "str"}) \/ ~IsUint8Array(val)
             THEN Err("TypeError")
           ELSE DecompressEntries(Tail(entries),
                  MapSet(acc, Str(C14N \o KeyToString(k)),
                         Str(<<TagU>> \o Base64UrlEncode(val.v))))

\* _decompressLabelMap: the entries() of a Map, or of an array (index and
\* element); no other decoded value has entries.
DecompressLabelMap(compressedLabelMap) ==
  IF compressedLabelMap.t = "map" THEN DecompressEntries(compressedLabelMap.v, <<>>)
  ELSE IF compressedLabelMap.t = "arr"
    THEN DecompressEntries(
           [i \in 1..Len(compressedLabelMap.v) |->
              <<IntV(i - 1), compressedLabelMap.v[i]>>], <<>>)
  ELSE Err("TypeError")

\* const [a, b, c, d, e] = decoded: the first five elements of an array, a
\* missing one undefined; a value that is no array does not give params.
Destructure(decoded) ==
  IF decoded.t # "arr" THEN Err("TypeError")
  ELSE Ok([i \in 1..5 |-> IF i <= Len(decoded.v) THEN decoded.v[i] ELSE Undefined])

\* serializeBaseProofValue
SerializeBaseProofValue(params) ==
  LET valid == ValidateBaseProofParams(params)
      payload == Arr(<<params.baseSignature, params.publicKey, params.hmacKey,
                      params.signatures, params.mandatoryPointers>>)
      cbor == ConcatBuffers(<<CBOR_PREFIX_BASE, CborEncode(payload)>>)
  IN  IF ~valid.ok THEN Err("TypeError")
      ELSE Ok(Str(<<TagU>> \o Base64UrlEncode(cbor)))

\* serializeBaseVerifyData
SerializeBaseVerifyData(params) ==
  LET valid == ValidateBaseVerifyDataParams(params)
  IN  IF ~valid.ok THEN Err("TypeError")
      ELSE Ok(ConcatBuffers(
                <<params.proofHash.v, params.publicKey.v, params.mandatoryHash.v>>))

\* serializeDisclosureProofValue once the params are validated and the
\* label map compressed.
DisclosureProofValueOf(params, compressed) ==
  IF ~compressed.ok THEN Err("Error")
  ELSE Ok(Str(<<TagU>> \o Base64UrlEncode(ConcatBuffers(
            <<CBOR_PREFIX_DERIVED,
              CborEncode(Arr(<<params.baseSignature, params.publicKey,
                               params.signatures, compressed.v,
                               params.mandatoryIndexes>>))>>))))

\* serializeDisclosureProofValue
SerializeDisclosureProofValue(params) ==
  IF ~ValidateDerivedProofParams(params).ok THEN Err("TypeError")
  ELSE DisclosureProofValueOf(params, CompressLabelMap(params.labelMap))

\* The params destructured from the decoded payload of a base proof value.
BaseParamsOf(fields) ==
  [baseSignature |-> fields[1], publicKey |-> fields[2], hmacKey |-> fields[3],
   signatures |-> fields[4], mandatoryPointers |-> fields[5]]

\* The params once _validateBaseProofParams lets them through.
ValidBaseParams(params) ==
  LET valid == ValidateBaseProofParams(params)
  IN  IF valid.ok THEN Ok(params) ELSE valid

\* parseBaseProofValue from the decoded payload on.
BaseParamsFromPayload(decoded) ==
  IF ~decoded.ok THEN Err("CBOR decode error")
  ELSE IF ~Destructure(decoded.v).ok THEN Err("TypeError")
  ELSE ValidBaseParams(BaseParamsOf(Destructure(decoded.v).v))

\* parseBaseProofValue from the decoded bytes of the proof value on: the
\* prefix is checked, then the payload after it is decoded.
BaseParamsFromBytes(proofValue, proofBytes) ==
  LET isBase == IsBaseProofValue(proofValue)
  IN  IF ~proofBytes.ok THEN proofBytes
      ELSE IF ~isBase.ok THEN isBase
      ELSE IF ~isBase.v THEN Err("proofValue must be a base proof")
      ELSE BaseParamsFromPayload(
             CborDecode(Slice(proofBytes.v, Len(CBOR_PREFIX_BASE))))

\* base64url.decode(proof.proofValue.slice(1))
ProofValueBytes(proofValue) ==
  IF IsString(proofValue) THEN Base64UrlDecode(Slice(proofValue.v, 1))
  ELSE Err("TypeError")

\* The body of the try block of parseBaseProofValue: the params, or the
\* error that is thrown inside it.
ParseBaseProofValueTry(proofValue) ==
  BaseParamsFromBytes(proofValue, ProofValueBytes(proofValue))

\* What the catch block makes of an outcome: every error becomes one
\* TypeError, the error thrown kept as its cause.
CatchAsInvalidProofValue(r) ==
  IF r.ok THEN r ELSE [ok |-> FALSE, v |-> "TypeError", cause |-> r.v]

\* parseBaseProofValue
ParseBaseProofValue(proofValue) ==
  CatchAsInvalidProofValue(ParseBaseProofValueTry(proofValue))

\* The params of a derived proof value from its destructured payload and
\* its decompressed label map, once _validateDerivedProofParams lets them
\* through.
ValidDerivedParams(fields, labelMap) ==
  LET params == [baseSignature |-> fields[1], publicKey |-> fields[2],
                 signatures |-> fields[3], labelMap |-> labelMap.v,
                 mandatoryIndexes |-> fields[5]]
      valid == ValidateDerivedProofParams(params)
  IN  IF ~labelMap.ok THEN labelMap
      ELSE IF ~valid.ok THEN valid
      ELSE Ok(params)

\* parseDisclosureProofValue from the destructured payload on.
DerivedParamsFromFields(fields) ==
  IF ~fields.ok THEN fields
  ELSE ValidDerivedParams(fields.v, DecompressLabelMap(fields.v[4]))

\* parseDisclosureProofValue from the decoded payload on.
DerivedParamsFromPayload(decoded) ==
  IF ~decoded.ok THEN Err("CBOR decode error")
  ELSE DerivedParamsFromFields(Destructure(decoded.v))

\* parseDisclosureProofValue from the decoded bytes of the proof value on.
DerivedParamsFromBytes(proofValue, proofBytes) ==
  LET isDerived == IsDerivedProofValue(proofValue)
  IN  IF ~proofBytes.ok THEN proofBytes
      ELSE IF ~isDerived.ok THEN isDerived
      ELSE IF ~isDerived.v THEN Err("proofValue must be a derived proof")
      ELSE DerivedParamsFromPayload(
             CborDecode(Slice(proofBytes.v, Len(CBOR_PREFIX_DERIVED))))

\* The body of the try block of parseDisclosureProofValue.
ParseDisclosureProofValueTry(proofValue) ==
  DerivedParamsFromBytes(proofValue, ProofValueBytes(proofValue))

\* parseDisclosureProofValue
ParseDisclosureProofValue(proofValue) ==
  CatchAsInvalidProofValue(ParseDisclosureProofValueTry(proofValue))

\* ------------------------------------------------ external collaborators

\* The cryptosuite name of name.js, as the suites carry it.
name == "sm2-sd-2023"

\* A document is the ascending list of the statements it holds; a statement
\* is a number.  The full document of n statements is <<0, ..., n - 1>>, so
\* that a statement's number is its absolute index there.  The statements
\* with an even number mention a blank node of their own.
FullDocument(n) == [i \in 1..n |-> i - 1]
HasBlankNode(stmt) == stmt % 2 = 0

RECURSIVE SortedSeq(_)
\* The members of a set of numbers in ascending order.
SortedSeq(S) ==
  IF S = {} THEN <<>>
  ELSE LET m == CHOOSE x \in S : \A y \in S : x <= y
       IN  <<m>> \o SortedSeq(S \ {m})

RECURSIVE WeightedSum(_, _, _)
\* The sum of k * (b[k] + 1) over the positions lo..hi of b.
WeightedSum(b, lo, hi) ==
  IF lo > hi THEN 0
  ELSE IF lo = hi THEN lo * (b[lo] + 1)
  ELSE LET mid == (lo + hi) \div 2
       IN  (WeightedSum(b, lo, mid) + WeightedSum(b, mid + 1, hi)) % 65521

\* A 32-byte digest of the bytes b: stands for the hash function.
Hash32(b) ==
  LET w == WeightedSum(b, 1, Len(b))
  IN  [j \in 1..HashLength |-> (w \div (IF j % 2 = 0 THEN 256 ELSE 1) + j * Len(b)) % 256]

\* hmac.sign(data) under the key: a digest of the key followed by the data.
HmacSign(key, data) == Hash32(key \o data)

\* The canonical identifier the canonicalization gives the blank node of
\* statement stmt in the document doc: "c14n" and its rank among the blank
\* nodes of doc.
CanonicalId(doc, stmt) ==
  C14N \o NatToString(Cardinality({i \in 1..Len(doc) :
                                      HasBlankNode(doc[i]) /\ doc[i] < stmt}))

\* The label createHmacIdLabelMapFunction gives a canonical identifier.
HmacLabel(hmacKey, c14nLabel) == <<TagU>> \o Base64UrlEncode(HmacSign(hmacKey, c14nLabel))

\* The canonical N-Quad of a statement whose blank node carries the label.
NQuad(stmt, label) == <<60, 115, 48 + stmt, 62, 32>> \o label \o <<32, 46, 10>>

\* The label of a statement without a blank node: none.
NoLabel == <<>>

\* The canonical N-Quads of doc with every blank node labelled by the HMAC
\* of its canonical identifier in doc, in canonical order.
HmacCanonicalize(doc, hmacKey) ==
  [i \in 1..Len(doc) |->
     NQuad(doc[i], IF HasBlankNode(doc[i])
                   THEN HmacLabel(hmacKey, CanonicalId(doc, doc[i]))
                   ELSE NoLabel)]

\* "undefined", what a label missing from the verifier's map reads as.
UndefinedLabel == <<117, 110, 100, 101, 102, 105, 110, 101, 100>>

\* labelReplacementCanonicalizeJsonLd with createLabelMapFunction({labelMap}):
\* every blank node labelled by what the map holds for its canonical
\* identifier in doc.
LabelMapCanonicalize(doc, labelMap) ==
  [i \in 1..Len(doc) |->
     NQuad(doc[i],
           IF ~HasBlankNode(doc[i]) THEN NoLabel
           ELSE IF MapHas(labelMap.v, Str(CanonicalId(doc, doc[i])))
             THEN MapGet(labelMap.v, Str(CanonicalId(doc, doc[i]))).v
           ELSE UndefinedLabel)]

\* A JSON pointer: "/s<i>" selects statement i, "/id" selects no statement.
PointerTo(i) == Str(<<47, 115, 48 + i>>)
PointerToId == Str(<<47, 105, 100>>)
Resolve(pointer) == IF pointer = PointerToId THEN {} ELSE {pointer.v[3] - 48}

\* The absolute indexes (in the full document doc) of the statements a list
\* of pointers selects: the keys of a group's `matching` map.
Matching(doc, pointers) ==
  {i \in 0..(Len(doc) - 1) : \E k \in 1..Len(pointers) : doc[i + 1] \in Resolve(pointers[k])}

\* selectJsonLd({document, pointers}): the sub-document of the statements
\* the pointers select.
SelectJsonLd(doc, pointers) == SortedSeq({doc[i + 1] : i \in Matching(doc, pointers)})

\* hashMandatory({mandatory}): the hash of the mandatory N-Quads joined.
HashMandatory(mandatory) == Bytes(Hash32(Concat(mandatory)))

\* hashCanonizedProof({document, proof}): the hash of the canonized proof
\* options, which signing and verification share.
HashCanonizedProof(proofOptions) == Bytes(Hash32(proofOptions))

\* The SM2 public key of a key pair in its 35-byte multikey form.
PublicKeyOf(keyId) == <<134, 36, 2>> \o Fill(PublicKeyLength - 3, keyId)

\* SM2Multikey.from({publicKeyMultibase}): the key pair a 35-byte public key
\* denotes; bytes that are no key throw.
KeyFrom(publicKey) ==
  IF Len(publicKey) = PublicKeyLength /\ publicKey = PublicKeyOf(publicKey[4])
  THEN Ok(publicKey[4]) ELSE Err("Error")

\* sign({data}) under the secret key of key pair keyId: 64 bytes.
SM2Sign(keyId, data) == <<keyId>> \o Hash32(data) \o Fill(SignatureLength - 1 - HashLength, 0)

\* verify({data, signature}) under the public key of key pair keyId.
SM2Verify(keyId, data, signature) == signature = SM2Sign(keyId, data)

\* The values of a map from absolute index to N-Quad, in ascending index
\* order, for the indexes in the set.
ValuesAt(nquads, indexes) ==
  LET keys == SortedSeq(indexes)
  IN  [k \in 1..Len(keys) |-> nquads[keys[k] + 1]]

\* ---------------------------------------------------------------- sign.js

\* _createSignData: the verify data the Signer signs.
CreateSignData(cryptosuite, doc, proofOptions, hmacKey) ==
  LET mandatoryPointers == cryptosuite.options.mandatoryPointers
      nquads == HmacCanonicalize(doc, hmacKey)
      matching == Matching(doc, mandatoryPointers)
      mandatory == ValuesAt(nquads, matching)
      nonMandatory == ValuesAt(nquads, (0..(Len(doc) - 1)) \ matching)
  IN  IF cryptosuite.name # name THEN Err("TypeError")
      ELSE Ok([proofHash |-> HashCanonizedProof(proofOptions),
               mandatoryPointers |-> Arr(mandatoryPointers),
               mandatoryHash |-> HashMandatory(mandatory),
               nonMandatory |-> nonMandatory,
               hmacKey |-> Bytes(hmacKey)])

\* _createBaseProofValue: one signature per non-mandatory statement under a
\* fresh local key, the base signature under the signer's key, then the
\* base proof value.
CreateBaseProofValue(verifyData, signerKey, localKey) ==
  LET signatures == [i \in 1..Len(verifyData.nonMandatory) |->
                       Bytes(SM2Sign(localKey, verifyData.nonMandatory[i]))]
      publicKey == Bytes(PublicKeyOf(localKey))
      toSign == SerializeBaseVerifyData(
                  [proofHash |-> verifyData.proofHash, publicKey |-> publicKey,
                   mandatoryHash |-> verifyData.mandatoryHash])
      baseSignature == Bytes(SM2Sign(signerKey, toSign.v))
  IN  IF ~toSign.ok THEN toSign
      ELSE SerializeBaseProofValue(
             [baseSignature |-> baseSignature, publicKey |-> publicKey,
              hmacKey |-> verifyData.hmacKey, signatures |-> Arr(signatures),
              mandatoryPointers |-> verifyData.mandatoryPointers])

\* ------------------------------------------------------------ disclose.js

\* The absolute index pushed instead of the relative one.
MandatoryIndexesAbsolute(mandatoryMatching, combinedMatching) ==
  LET abs == SortedSeq(combinedMatching \cap mandatoryMatching)
  IN  [j \in 1..Len(abs) |-> IntV(abs[j])]

\* The loop over combinedGroup.matching.keys(): the position within the
\* combined statements of every mandatory one.
MandatoryIndexes(mandatoryMatching, combinedMatching) ==
  LET keys == SortedSeq(combinedMatching)
      hits == {k \in 1..Len(keys) : keys[k] \in mandatoryMatching}
      rel == SortedSeq({k - 1 : k \in hits})
  IN  [j \in 1..Len(rel) |-> IntV(rel[j])]

\* The cursor moved past one mandatory index at most: if instead of while.
SkipMandatoryOnce(mandatoryMatching, index) ==
  IF index \in mandatoryMatching THEN index + 1 ELSE index

RECURSIVE SkipMandatory(_, _)
\* while(mandatoryGroup.matching.has(index)) index++
SkipMandatory(mandatoryMatching, index) ==
  IF index \in mandatoryMatching THEN SkipMandatory(mandatoryMatching, index + 1)
  ELSE index

RECURSIVE FilterWalk(_, _, _, _, _)
\* signatures.filter(...) with its index cursor: the cursor skips the
\* mandatory indexes, the signature is kept iff the index it stops at is
\* selective, and the cursor moves on by one.
FilterWalk(signatures, mandatoryMatching, selectiveMatching, index, kept) ==
  IF signatures = <<>> THEN kept
  ELSE LET at == SkipMandatory(mandatoryMatching, index)
       IN  FilterWalk(Tail(signatures), mandatoryMatching, selectiveMatching, at + 1,
                      IF at \in selectiveMatching
                      THEN Append(kept, Head(signatures)) ELSE kept)

\* The walk without the skip over the mandatory indexes.
FilterSignaturesNoSkip(signatures, mandatoryMatching, selectiveMatching) ==
  FilterWalk(signatures, {}, selectiveMatching, 0, <<>>)

FilterSignatures(signatures, mandatoryMatching, selectiveMatching) ==
  FilterWalk(signatures, mandatoryMatching, selectiveMatching, 0, <<>>)

\* The verifier's label map: for every blank node of the combined
\* statements, its canonical identifier in the revealed document mapped to
\* the HMAC label it has in the full document.
VerifierLabelMap(doc, revealDoc, hmacKey) ==
  LET blank == SortedSeq({revealDoc[i] : i \in {j \in 1..Len(revealDoc) :
                                                  HasBlankNode(revealDoc[j])}})
  IN  MapV([k \in 1..Len(blank) |->
              <<Str(CanonicalId(revealDoc, blank[k])),
                Str(HmacLabel(hmacKey, CanonicalId(doc, blank[k])))>>])

\* Whether the Discloser finds something selected: a pointer in either list.
SomethingSelected(mandatoryPointers, selectivePointers) ==
  Len(mandatoryPointers) > 0 \/ Len(selectivePointers) > 0

\* The strings of a decoded array of pointers.
PointersIn(parsed) ==
  [i \in 1..Len(parsed.mandatoryPointers.v) |-> parsed.mandatoryPointers.v[i]]

\* _createDisclosureData once the base proof value is parsed.
DisclosureDataFrom(doc, parsed, mandatoryPointers, selectivePointers) ==
  LET mandatoryMatching == Matching(doc, mandatoryPointers)
      selectiveMatching == Matching(doc, selectivePointers)
      combinedMatching == Matching(doc, mandatoryPointers \o selectivePointers)
      revealDoc == SelectJsonLd(doc, mandatoryPointers \o selectivePointers)
  IN  IF ~SomethingSelected(mandatoryPointers, selectivePointers)
        THEN Err("Nothing selected for disclosure.")
      ELSE Ok([baseSignature |-> parsed.baseSignature,
               publicKey |-> parsed.publicKey,
               signatures |-> Arr(FilterSignatures(parsed.signatures.v,
                                    mandatoryMatching, selectiveMatching)),
               labelMap |-> VerifierLabelMap(doc, revealDoc, parsed.hmacKey.v),
               mandatoryIndexes |-> Arr(MandatoryIndexes(mandatoryMatching,
                                                         combinedMatching)),
               revealDoc |-> revealDoc])

\* _createDisclosureData from the outcome of parseBaseProofValue on.
DisclosureDataFromParsed(cryptosuite, doc, parsed) ==
  IF ~parsed.ok THEN parsed
  ELSE DisclosureDataFrom(doc, parsed.v, PointersIn(parsed.v),
                          cryptosuite.options.selectivePointers)

\* _createDisclosureData
CreateDisclosureData(cryptosuite, doc, proof) ==
  IF cryptosuite.name # name THEN Err("TypeError")
  ELSE DisclosureDataFromParsed(cryptosuite, doc, ParseBaseProofValue(proof.proofValue))

\* Objects are held in a heap, a sequence of records, and referred to by
\* their index in it. A document object has the field statements and, once a
\* proof is attached, the field proof with the reference of the proof object.
\* The field context of a proof object is its '@context'.

\* The reference a new object gets.
FreshRef(h) == Len(h) + 1

\* The references of the two objects a derive call is given: the document
\* and the base proof of its proof set.
DocumentRef == 1
BaseProofRef == 2

\* The heap with an object stored under a reference.
Store(h, ref, obj) ==
  IF ref = FreshRef(h) THEN Append(h, obj) ELSE [h EXCEPT ![ref] = obj]

\* An object without one of its fields: delete obj[field]
DeleteField(obj, field) == [f \in (DOMAIN obj) \ {field} |-> obj[f]]

\* newProof made the base proof itself instead of a copy of it.
NewProofAlias(h, baseRef) == baseRef

\* const newProof = {...baseProof}: the reference of a new object.
NewProofRef(h, baseRef) == FreshRef(h)

\* What a derive call leaves: the heap, and what it returned or raised.
Left(h, out) == [heap |-> h, out |-> out]

\* newProof.proofValue = ...; delete newProof['@context'];
\* revealDoc.proof = newProof; return revealDoc
AttachDerivedProof(h, revealRef, newProof, proofValue) ==
  IF ~proofValue.ok THEN Left(h, proofValue)
  ELSE Left([h EXCEPT ![newProof] =
                        DeleteField([@ EXCEPT !.proofValue = proofValue.v], "context"),
                      ![revealRef] =
                        [statements |-> @.statements, proof |-> newProof]],
            Ok(revealRef))

\* _derive from the copy of the base proof on; revealDoc is the object that
\* selectJsonLd made in _createDisclosureData.
DeriveWith(h, revealRef, baseRef, newProof, data) ==
  AttachDerivedProof(Store(h, newProof, h[baseRef]), revealRef, newProof,
    SerializeDisclosureProofValue(
      [baseSignature |-> data.baseSignature, publicKey |-> data.publicKey,
       signatures |-> data.signatures, labelMap |-> data.labelMap,
       mandatoryIndexes |-> data.mandatoryIndexes]))

\* _derive from the outcome of _createDisclosureData on.
DeriveFrom(h, baseRef, data) ==
  IF ~data.ok THEN Left(h, data)
  ELSE DeriveWith(Append(h, [statements |-> data.v.revealDoc]), FreshRef(h), baseRef,
                  NewProofRef(Append(h, [statements |-> data.v.revealDoc]), baseRef),
                  data.v)

\* _derive on the objects of a heap, for the base proof found in the proof
\* set: it returns the reference of the revealed document.
DeriveOnHeap(h, cryptosuite, docRef, purpose, baseRef) ==
  IF h[baseRef].proofPurpose # purpose
    THEN Left(h, Err("Base proof purpose does not match purpose for derived proof."))
  ELSE DeriveFrom(h, baseRef,
                  CreateDisclosureData(cryptosuite, h[docRef].statements, h[baseRef]))

\* The document and the proof a derive call returned, read from the heap it
\* left.
Returned(left) ==
  IF ~left.out.ok THEN left.out
  ELSE Ok([document |-> left.heap[left.out.v].statements,
           proof |-> left.heap[left.heap[left.out.v].proof],
           ref |-> left.out.v])

\* _derive, called with a document and a base proof that nothing else refers
\* to.
Derive(cryptosuite, doc, purpose, baseProof) ==
  Returned(DeriveOnHeap(<<[statements |-> doc], baseProof>>, cryptosuite,
                        DocumentRef, purpose, BaseProofRef))

\* -------------------------------------------------------------- verify.js

\* The partition of the canonical N-Quads by mandatoryIndexes.includes.
IndexSet(mandatoryIndexes) ==
  {mandatoryIndexes.v[i].v : i \in 1..Len(mandatoryIndexes.v)}

\* _createVerifyData of the verify suite once the proof value is parsed and
\* the document canonicalized under the label map.
VerifyDataFrom(proof, parsed, nquads) ==
  Ok([baseSignature |-> parsed.baseSignature,
      proofHash |-> HashCanonizedProof(proof.options),
      publicKey |-> parsed.publicKey,
      signatures |-> parsed.signatures,
      nonMandatory |-> ValuesAt(nquads, (0..(Len(nquads) - 1)) \
                                          IndexSet(parsed.mandatoryIndexes)),
      mandatoryHash |-> HashMandatory(
                          ValuesAt(nquads, (0..(Len(nquads) - 1)) \cap
                                             IndexSet(parsed.mandatoryIndexes)))])

\* _createVerifyData of the verify suite from the outcome of
\* parseDisclosureProofValue on.
VerifyDataFromParsed(doc, proof, parsed) ==
  IF ~parsed.ok THEN parsed
  ELSE VerifyDataFrom(proof, parsed.v, LabelMapCanonicalize(doc, parsed.v.labelMap))

\* _createVerifyData of the verify suite.
CreateVerifyData(cryptosuite, doc, proof) ==
  IF cryptosuite.name # name THEN Err("TypeError")
  ELSE VerifyDataFromParsed(doc, proof, ParseDisclosureProofValue(proof.proofValue))

\* What `await proofHashPromise` gives: hashCanonizedProof(...).catch(e => e)
\* resolves to the hash when the computation fulfils and to the rejection
\* reason, whatever value it is, when it rejects.
AwaitCaught(settled) == settled.v

\* The end of a createVerifyData: the rest of the operation has thrown or
\* given its data; the awaited proof hash is thrown if it is an Error, and
\* else it is the proofHash of the verify data returned.
JoinProofHash(rest, proofHash) ==
  IF ~rest.ok THEN rest
  ELSE IF proofHash.t = "error" THEN [ok |-> FALSE, v |-> "thrown", cause |-> proofHash]
  ELSE Ok([rest.v EXCEPT !.proofHash = proofHash])

\* ------------------------------------------------------------- confirm.js

\* nquads.filter(nquad => !mandatory.includes(nquad))
WithoutMandatory(nquads, mandatory) ==
  SelectSeq(nquads, LAMBDA nq : \A i \in 1..Len(mandatory) : mandatory[i] # nq)

\* The mandatory N-Quads of the confirm suite: none without a pointer, else
\* the canonical N-Quads of the sub-document the pointers select, labelled
\* by the HMAC of their canonical identifiers in that sub-document.
ConfirmMandatory(doc, mandatoryPointers, hmacKey) ==
  IF Len(mandatoryPointers) = 0 THEN <<>>
  ELSE HmacCanonicalize(SelectJsonLd(doc, mandatoryPointers), hmacKey)

\* _createVerifyData of the confirm suite once the base proof value is
\* parsed, the document canonicalized and the mandatory N-Quads found.
ConfirmVerifyDataFrom(proof, parsed, nquads, mandatory) ==
  Ok([baseSignature |-> parsed.baseSignature,
      proofHash |-> HashCanonizedProof(proof.options),
      publicKey |-> parsed.publicKey,
      signatures |-> parsed.signatures,
      nonMandatory |-> WithoutMandatory(nquads, mandatory),
      mandatoryHash |-> HashMandatory(mandatory)])

\* _createVerifyData of the confirm suite from the outcome of
\* parseBaseProofValue on.
ConfirmVerifyDataFromParsed(doc, proof, parsed) ==
  IF ~parsed.ok THEN parsed
  ELSE ConfirmVerifyDataFrom(proof, parsed.v,
         HmacCanonicalize(doc, parsed.v.hmacKey.v),
         ConfirmMandatory(doc, PointersIn(parsed.v), parsed.v.hmacKey.v))

\* _createVerifyData of the confirm suite.
ConfirmCreateVerifyData(cryptosuite, doc, proof) ==
  IF cryptosuite.name # name THEN Err("TypeError")
  ELSE ConfirmVerifyDataFromParsed(doc, proof, ParseBaseProofValue(proof.proofValue))

\* The per-statement checks of _multiverify: signature i against
\* nonMandatory[i] under the public key of the proof.
StatementResults(localKey, data) ==
  [i \in 1..Len(data.signatures.v) |->
     SM2Verify(localKey, data.nonMandatory[i], data.signatures.v[i].v)]

\* The base signature check of _multiverify, under the verifier's key.
BaseResult(verifierKey, data) ==
  LET toVerify == SerializeBaseVerifyData(
                    [proofHash |-> data.proofHash, publicKey |-> data.publicKey,
                     mandatoryHash |-> data.mandatoryHash])
  IN  IF ~toVerify.ok THEN toVerify
      ELSE Ok(SM2Verify(verifierKey, toVerify.v, data.baseSignature.v))

\* _multiverify without its count check: a signature with no statement
\* to pair with fails its check.
MultiverifyNoCountCheck(verifierKey, data) ==
  LET localKey == KeyFrom(data.publicKey.v)
  IN  IF ~localKey.ok THEN localKey
      ELSE IF \E i \in 1..Len(data.signatures.v) :
                i > Len(data.nonMandatory) \/
                ~SM2Verify(localKey.v, data.nonMandatory[i], data.signatures.v[i].v)
        THEN Ok(FALSE)
      ELSE BaseResult(verifierKey, data)

\* _multiverify with the per-statement results ignored.
MultiverifyBaseOnly(verifierKey, data) ==
  LET localKey == KeyFrom(data.publicKey.v)
  IN  IF ~localKey.ok THEN localKey
      ELSE IF Len(data.signatures.v) # Len(data.nonMandatory)
        THEN Err("Signature count does not match non-mandatory message count")
      ELSE BaseResult(verifierKey, data)

\* _multiverify
Multiverify(verifierKey, data) ==
  LET localKey == KeyFrom(data.publicKey.v)
      results == StatementResults(localKey.v, data)
  IN  IF ~localKey.ok THEN localKey
      ELSE IF Len(data.signatures.v) # Len(data.nonMandatory)
        THEN Err("Signature count does not match non-mandatory message count")
      ELSE IF \E i \in 1..Len(results) : ~results[i] THEN Ok(FALSE)
      ELSE BaseResult(verifierKey, data)

\* ------------------------------------------------------------ the system

VARIABLES
  phase,        \* how far the exchange has come
  document,     \* the document the Signer signs
  signSuite,    \* the sign cryptosuite, with its mandatory pointers
  signData,     \* the outcome of the sign suite's createVerifyData
  baseProof,    \* the outcome of createProofValue: the proof with its value
  discloseSuite, \* the disclose cryptosuite, with its selective pointers
  derived,      \* the outcome of derive: the revealed document and its proof
  presented,    \* the document and proof handed to the Verifier
  verifyData,   \* the outcome of the verify suite's createVerifyData
  verified,     \* the outcome of verify
  heap,         \* the objects of the exchange: the document, the proofs
  codecStage,   \* how far a caller of the proof-value codec has come
  codecKind,    \* the kind of params the caller holds: "base" or "derived"
  codecParams,  \* the params the caller holds
  codecEncoder, \* where the proof value comes from: "serialize" or "forge"
  codecProofValue, \* the outcome of the serialize function, or the forged value
  codecParser,  \* the parse function called on the proof value
  codecParsed,  \* the outcome of the parse function
  callInput,    \* the document and the proofs the framework holds for a call
  callOp,       \* the operation of a suite the framework calls
  callPc,       \* how far the operation has come
  hashPromise,  \* the proof-hash computation started by a createVerifyData
  callRest,     \* the outcome of the operation apart from the proof hash
  signCalls,    \* how many times a sign function has been called
  callOutcome   \* what the operation returned or raised

exchangeVars == <<phase, document, signSuite, signData, baseProof, discloseSuite,
                  derived, presented, verifyData, verified, heap>>

codecVars == <<codecStage, codecKind, codecParams, codecEncoder, codecProofValue,
               codecParser, codecParsed>>

callVars == <<callInput, callOp, callPc, hashPromise, callRest, signCalls, callOutcome>>

vars == <<exchangeVars, codecVars, callVars>>

\* No outcome yet.
NotYet == [ok |-> FALSE, v |-> "not yet"]

\* The inputs the environment supplies.
HmacKeys == {Fill(HmacKeyLength, 9)}
IdentityKeys == {21}
LocalKeys == {22}
ProofOptions == <<112, 114, 111, 111, 102>>
ProofPurpose == "assertionMethod"
ProofContext == <<99, 116, 120>>

RECURSIVE PointersOf(_)
\* The pointers to the statements of a set, in ascending order.
PointersOf(S) ==
  IF S = {} THEN <<>>
  ELSE LET m == CHOOSE x \in S : \A y \in S : x <= y
       IN  <<PointerTo(m)>> \o PointersOf(S \ {m})

\* The pointer lists a caller may give for a document of n statements: the
\* pointers to any of its statements, with or without the pointer that
\* selects no statement.
PointerLists(n) ==
  {PointersOf(S) : S \in SUBSET (0..(n - 1))} \cup
  {PointersOf(S) \o <<PointerToId>> : S \in SUBSET (0..(n - 1))}

\* What a party between the Discloser and the Verifier may do to the derived
\* proof before it is verified.
Tampers == {"none", "dropSignature", "addSignature", "flipSignature",
            "flipBaseSignature", "flipBoth"}

\* A signature changed in its first byte.
Flip(sig) == Bytes([sig.v EXCEPT ![1] = (sig.v[1] + 1) % 256])

TamperParams(params, tamper) ==
  LET sigs == params.signatures.v
  IN  CASE tamper = "dropSignature" /\ Len(sigs) > 0 ->
             [params EXCEPT !.signatures = Arr(SubSeq(sigs, 1, Len(sigs) - 1))]
        [] tamper = "addSignature" ->
             [params EXCEPT !.signatures = Arr(Append(sigs, params.baseSignature))]
        [] tamper = "flipSignature" /\ Len(sigs) > 0 ->
             [params EXCEPT !.signatures = Arr([sigs EXCEPT ![1] = Flip(sigs[1])])]
        [] tamper = "flipBaseSignature" ->
             [params EXCEPT !.baseSignature = Flip(params.baseSignature)]
        [] tamper = "flipBoth" /\ Len(sigs) > 0 ->
             [params EXCEPT !.signatures = Arr([sigs EXCEPT ![1] = Flip(sigs[1])]),
                            !.baseSignature = Flip(params.baseSignature)]
        [] OTHER -> params

\* The derived proof with its proof value decoded, changed and encoded anew.
TamperProof(proof, tamper) ==
  IF tamper = "none" THEN proof
  ELSE [proof EXCEPT !.proofValue =
          SerializeDisclosureProofValue(
            TamperParams(ParseDisclosureProofValue(proof.proofValue).v, tamper)).v]

\* The codec with no caller of its own.
CodecIdle ==
  /\ codecStage = "idle"
  /\ codecKind = "none"
  /\ codecParams = NotYet
  /\ codecEncoder = "none"
  /\ codecProofValue = NotYet
  /\ codecParser = "none"
  /\ codecParsed = NotYet

\* No operation called apart from the exchange.
CallIdle ==
  /\ callInput = NotYet
  /\ callOp = NotYet
  /\ callPc = "idle"
  /\ hashPromise = NotYet
  /\ callRest = NotYet
  /\ signCalls = 0
  /\ callOutcome = NotYet

Init ==
  /\ phase = "start"
  /\ \E n \in 0..MaxStatements :
       /\ document = FullDocument(n)
       /\ \E pointers \in PointerLists(n) :
            signSuite = [name |-> name, options |-> [mandatoryPointers |-> pointers]]
  /\ signData = NotYet
  /\ baseProof = NotYet
  /\ discloseSuite = [name |-> name, options |-> [selectivePointers |-> <<>>]]
  /\ derived = NotYet
  /\ presented = NotYet
  /\ verifyData = NotYet
  /\ verified = NotYet
  /\ heap = <<[statements |-> document]>>
  /\ CodecIdle
  /\ CallIdle

\* The framework calls createVerifyData of the sign suite.
SignCreateVerifyData ==
  /\ phase = "start"
  /\ \E hmacKey \in HmacKeys :
       signData' = CreateSignData(signSuite, document, ProofOptions, hmacKey)
  /\ phase' = "signData"
  /\ UNCHANGED <<document, signSuite, baseProof, discloseSuite, derived, presented,
                 verifyData, verified, heap, codecVars, callVars>>

\* The framework calls createProofValue of the sign suite and attaches the
\* proof value to the proof.
SignCreateProofValue ==
  /\ phase = "signData"
  /\ signData.ok
  /\ \E signerKey \in IdentityKeys, localKey \in LocalKeys :
       LET proofValue == CreateBaseProofValue(signData.v, signerKey, localKey)
       IN  baseProof' =
             IF proofValue.ok
             THEN Ok([proofValue |-> proofValue.v, proofPurpose |-> ProofPurpose,
                      options |-> ProofOptions, verificationMethod |-> signerKey,
                      context |-> ProofContext])
             ELSE proofValue
  /\ heap' = IF baseProof'.ok THEN Store(heap, BaseProofRef, baseProof'.v) ELSE heap
  /\ phase' = "signed"
  /\ UNCHANGED <<document, signSuite, signData, discloseSuite, derived, presented,
                 verifyData, verified, codecVars, callVars>>

\* The holder derives a proof with the disclose suite and its selective
\* pointers.
DeriveProof ==
  /\ phase = "signed"
  /\ baseProof.ok
  /\ \E pointers \in PointerLists(Len(document)) :
       discloseSuite' = [name |-> name, options |-> [selectivePointers |-> pointers]]
  /\ \E left \in {DeriveOnHeap(heap, discloseSuite', DocumentRef, ProofPurpose,
                               BaseProofRef)} :
       /\ heap' = left.heap
       /\ derived' = Returned(left)
  /\ phase' = "derived"
  /\ UNCHANGED <<document, signSuite, signData, baseProof, presented, verifyData, verified,
                 codecVars, callVars>>

\* The verify cryptosuite the Verifier uses.
VerifySuite == [name |-> name]

\* The derived document and proof reach the Verifier, as they are or changed
\* on the way, and the framework calls createVerifyData of the verify suite.
VerifierCreateVerifyData ==
  /\ phase = "derived"
  /\ derived.ok
  /\ \E tamper \in Tampers :
       presented' = Ok([document |-> derived.v.document,
                        proof |-> TamperProof(derived.v.proof, tamper),
                        kind |-> "derived", tamper |-> tamper])
  /\ verifyData' = CreateVerifyData(VerifySuite, presented'.v.document, presented'.v.proof)
  /\ phase' = "verifyData"
  /\ UNCHANGED <<document, signSuite, signData, baseProof, discloseSuite, derived, verified,
                 heap, codecVars, callVars>>

\* The signed document with its base proof is handed to the Verifier.
VerifierCreateVerifyDataOnBase ==
  /\ phase = "signed"
  /\ baseProof.ok
  /\ presented' = Ok([document |-> document, proof |-> baseProof.v,
                      kind |-> "base", tamper |-> "none"])
  /\ verifyData' = CreateVerifyData(VerifySuite, presented'.v.document, presented'.v.proof)
  /\ phase' = "verifyData"
  /\ UNCHANGED <<document, signSuite, signData, baseProof, discloseSuite, derived, verified,
                 heap, codecVars, callVars>>

\* The confirm cryptosuite.
ConfirmSuite == [name |-> name]

\* The signed document with its base proof is checked with the confirm
\* suite: the framework calls its createVerifyData.
ConfirmerCreateVerifyData ==
  /\ phase = "signed"
  /\ baseProof.ok
  /\ presented' = Ok([document |-> document, proof |-> baseProof.v,
                      kind |-> "confirm", tamper |-> "none"])
  /\ verifyData' = ConfirmCreateVerifyData(ConfirmSuite, presented'.v.document,
                                           presented'.v.proof)
  /\ phase' = "verifyData"
  /\ UNCHANGED <<document, signSuite, signData, baseProof, discloseSuite, derived, verified,
                 heap, codecVars, callVars>>

\* The framework calls verify of the verifier made for the proof's
\* verification method.
VerifierVerify ==
  /\ phase = "verifyData"
  /\ verifyData.ok
  /\ verified' = Multiverify(presented.v.proof.verificationMethod, verifyData.v)
  /\ phase' = "verified"
  /\ UNCHANGED <<document, signSuite, signData, baseProof, discloseSuite, derived,
                 presented, verifyData, heap, codecVars, callVars>>

Next ==
  \/ SignCreateVerifyData
  \/ SignCreateProofValue
  \/ DeriveProof
  \/ VerifierCreateVerifyData
  \/ VerifierCreateVerifyDataOnBase
  \/ ConfirmerCreateVerifyData
  \/ VerifierVerify

Spec == Init /\ [][Next]_vars

\* -------------------------------------------- the codec, called directly

\* The longest list of signatures a caller of the codec holds.
MaxSignatures == 2
\* The largest number of entries of a label map a caller of the codec holds.
MaxLabels == 2

\* All sequences over S of length at most n.
RECURSIVE SeqsUpTo(_, _)
SeqsUpTo(S, n) ==
  IF n = 0 THEN {<<>>}
  ELSE SeqsUpTo(S, n - 1) \cup
       {Append(q, x) : q \in {r \in SeqsUpTo(S, n - 1) : Len(r) = n - 1}, x \in S}

\* Values a caller may pass as a signature: two of the right length, one a
\* byte short.
SignatureValues == {Bytes(Fill(SignatureLength, 1)), Bytes(Fill(SignatureLength, 3)),
                    Bytes(Fill(SignatureLength - 1, 2))}
BaseSignatureValues == {Bytes(Fill(SignatureLength, 5)),
                        Bytes(Fill(SignatureLength - 1, 5)),
                        Str(Fill(SignatureLength, 5))}
PublicKeyValues == {Bytes(PublicKeyOf(22)), Bytes(Fill(PublicKeyLength - 1, 6))}
HmacKeyValues == {Bytes(Fill(HmacKeyLength, 9)), Bytes(Fill(HmacKeyLength + 1, 9))}
SignatureListValues ==
  {Arr(q) : q \in SeqsUpTo(SignatureValues, MaxSignatures)} \cup {Str(<<>>)}
MandatoryPointerValues ==
  {Arr(<<>>), Arr(<<PointerTo(1), PointerTo(0)>>), Arr(<<IntV(1)>>)}
MandatoryIndexValues == {Arr(<<>>), Arr(<<IntV(0), IntV(2)>>), Arr(<<Str(<<48>>)>>)}

\* Keys of a label map: "c14n0", "c14n1", "c14n01", "c14nX".
LabelKeys == <<C14N \o <<48>>, C14N \o <<49>>, C14N \o <<48, 49>>, C14N \o <<88>>>>
\* Values of a label map: "uAAAA", "zAAAA", "uAB" and the empty string.
LabelValues == {<<TagU, 65, 65, 65, 65>>, <<122, 65, 65, 65, 65>>, <<TagU, 65, 66>>, <<>>}

\* The label maps that hold the keys of the index set K, in their order,
\* each with any of the values.
RECURSIVE LabelMapsOver(_)
LabelMapsOver(K) ==
  IF K = {} THEN {<<>>}
  ELSE LET m == CHOOSE x \in K : \A y \in K : x >= y
       IN  {Append(q, <<Str(LabelKeys[m]), Str(val)>>) :
              q \in LabelMapsOver(K \ {m}), val \in LabelValues}

LabelMapValues ==
  UNION {{MapV(q) : q \in LabelMapsOver(K)} :
           K \in {J \in SUBSET (1..Len(LabelKeys)) : Cardinality(J) <= MaxLabels}}

BaseParamsValues ==
  [baseSignature : BaseSignatureValues, publicKey : PublicKeyValues,
   hmacKey : HmacKeyValues, signatures : SignatureListValues,
   mandatoryPointers : MandatoryPointerValues]

\* The derived params a caller holds: any signatures and indexes with one
\* label map, or any label map with one list of signatures.
DerivedParamsValues ==
  [baseSignature : BaseSignatureValues, publicKey : PublicKeyValues,
   signatures : SignatureListValues,
   labelMap : {MapV(<<<<Str(LabelKeys[1]), Str(<<TagU, 65, 65, 65, 65>>)>>>>)},
   mandatoryIndexes : MandatoryIndexValues]
  \cup
  [baseSignature : {Bytes(Fill(SignatureLength, 5))},
   publicKey : {Bytes(PublicKeyOf(22))},
   signatures : {Arr(<<Bytes(Fill(SignatureLength, 1))>>)},
   labelMap : LabelMapValues,
   mandatoryIndexes : {Arr(<<IntV(0)>>)}]

CodecInit ==
  /\ phase = "idle"
  /\ document = <<>>
  /\ signSuite = [name |-> name, options |-> [mandatoryPointers |-> <<>>]]
  /\ signData = NotYet
  /\ baseProof = NotYet
  /\ discloseSuite = [name |-> name, options |-> [selectivePointers |-> <<>>]]
  /\ derived = NotYet
  /\ presented = NotYet
  /\ verifyData = NotYet
  /\ verified = NotYet
  /\ heap = <<>>
  /\ codecStage = "params"
  /\ \/ codecKind = "base" /\ codecParams \in BaseParamsValues
     \/ codecKind = "derived" /\ codecParams \in DerivedParamsValues
  /\ codecEncoder = "none"
  /\ codecProofValue = NotYet
  /\ codecParser = "none"
  /\ codecParsed = NotYet
  /\ CallIdle

\* A caller serializes base params.
CodecSerializeBase ==
  /\ codecStage = "params" /\ codecKind = "base"
  /\ codecProofValue' = SerializeBaseProofValue(codecParams)
  /\ codecEncoder' = "serialize"
  /\ codecStage' = "encoded"
  /\ UNCHANGED <<exchangeVars, callVars, codecKind, codecParams, codecParser, codecParsed>>

\* A caller serializes derived params.
CodecSerializeDerived ==
  /\ codecStage = "params" /\ codecKind = "derived"
  /\ codecProofValue' = SerializeDisclosureProofValue(codecParams)
  /\ codecEncoder' = "serialize"
  /\ codecStage' = "encoded"
  /\ UNCHANGED <<exchangeVars, callVars, codecKind, codecParams, codecParser, codecParsed>>

\* Wire forms of a label map that another encoder may produce: a negative
\* key, a text key, a value that is no byte string.
ForgedLabelMaps ==
  {MapV(<<<<IntV(0), Bytes(<<0, 0, 0>>)>>>>),
   MapV(<<<<IntV(0 - 1), Bytes(<<0, 0, 0>>)>>>>),
   MapV(<<<<Str(<<88>>), Bytes(<<0, 0, 0>>)>>>>),
   MapV(<<<<IntV(0), Str(<<TagU, 65, 65, 65, 65>>)>>>>)}

\* The payload fields another encoder writes for the params, unvalidated.
ForgedFields(kind, params, wireLabelMap) ==
  IF kind = "base"
  THEN <<params.baseSignature, params.publicKey, params.hmacKey,
         params.signatures, params.mandatoryPointers>>
  ELSE <<params.baseSignature, params.publicKey, params.signatures,
         wireLabelMap, params.mandatoryIndexes>>

\* The first n elements of s, or all of s.
Take(s, n) == IF n >= Len(s) THEN s ELSE SubSeq(s, 1, n)

\* The lengths a forged proof value is cut to: nothing, less than a prefix,
\* or the whole value.
ForgedCuts == {0, Len(CBOR_PREFIX_BASE) - 1, 100000}

\* A proof value arrives that no serialize function of this codec made: the
\* params unvalidated, under either prefix, whole or cut short.
CodecForge ==
  /\ codecStage = "params"
  /\ \E prefix \in {CBOR_PREFIX_BASE, CBOR_PREFIX_DERIVED},
        wireLabelMap \in ForgedLabelMaps, cut \in ForgedCuts :
       codecProofValue' =
         Ok(Str(<<TagU>> \o Base64UrlEncode(Take(
           prefix \o CborEncode(Arr(ForgedFields(codecKind, codecParams, wireLabelMap))),
           cut))))
  /\ codecEncoder' = "forge"
  /\ codecStage' = "encoded"
  /\ UNCHANGED <<exchangeVars, callVars, codecKind, codecParams, codecParser, codecParsed>>

\* A caller parses the proof value as a base proof value.
CodecParseBase ==
  /\ codecStage = "encoded" /\ codecProofValue.ok
  /\ codecParsed' = ParseBaseProofValue(codecProofValue.v)
  /\ codecParser' = "base"
  /\ codecStage' = "parsed"
  /\ UNCHANGED <<exchangeVars, callVars, codecKind, codecParams, codecEncoder, codecProofValue>>

\* A caller parses the proof value as a derived proof value.
CodecParseDerived ==
  /\ codecStage = "encoded" /\ codecProofValue.ok
  /\ codecParsed' = ParseDisclosureProofValue(codecProofValue.v)
  /\ codecParser' = "derived"
  /\ codecStage' = "parsed"
  /\ UNCHANGED <<exchangeVars, callVars, codecKind, codecParams, codecEncoder, codecProofValue>>

CodecNext ==
  \/ CodecSerializeBase
  \/ CodecSerializeDerived
  \/ CodecForge
  \/ CodecParseBase
  \/ CodecParseDerived

CodecSpec == CodecInit /\ [][CodecNext]_vars

\* ------------------------------- the operations, called by the framework

\* The names a cryptosuite handed to an operation may carry.
SuiteNames == {name, "other-sd-2023"}

\* The purposes a derive may be asked for.
Purposes == {ProofPurpose, "authentication"}

\* The proof the framework holds once the proof value is attached.
ProofWith(proofValue) ==
  [proofValue |-> proofValue.v, proofPurpose |-> ProofPurpose,
   options |-> ProofOptions, verificationMethod |-> 21]

\* The base proof the Signer makes from its verify data.
BaseProofFrom(signed) == ProofWith(CreateBaseProofValue(signed.v, 21, 22))

\* What the framework holds for its calls: a document, its base proof for
\* the mandatory pointers, and the proof derived from it that discloses
\* every statement.
CallInputFor(doc, mandatoryPointers, proof) ==
  [document |-> doc,
   mandatoryPointers |-> mandatoryPointers,
   baseProof |-> proof,
   derived |-> Derive([name |-> name,
                       options |-> [selectivePointers |->
                                      PointersOf(0..(Len(doc) - 1)) \o <<PointerToId>>]],
                      doc, ProofPurpose, proof).v]

\* The exchange of Spec not taking place.
ExchangeIdle ==
  /\ phase = "idle"
  /\ document = <<>>
  /\ signSuite = [name |-> name, options |-> [mandatoryPointers |-> <<>>]]
  /\ signData = NotYet
  /\ baseProof = NotYet
  /\ discloseSuite = [name |-> name, options |-> [selectivePointers |-> <<>>]]
  /\ derived = NotYet
  /\ presented = NotYet
  /\ verifyData = NotYet
  /\ verified = NotYet
  /\ heap = <<>>

\* The operations the framework may call first, with the cryptosuite it
\* hands them.
FirstOps(mandatoryPointers) ==
  [suite : {"sign"}, fn : {"createVerifyData"},
   cryptosuite : [name : SuiteNames,
                  options : {[mandatoryPointers |-> mandatoryPointers]}],
   purpose : {ProofPurpose}, verifyData : {NotYet}]
  \cup
  [suite : {"verify", "confirm"}, fn : {"createVerifyData"},
   cryptosuite : [name : SuiteNames],
   purpose : {ProofPurpose}, verifyData : {NotYet}]
  \cup
  [suite : {"disclose"}, fn : {"derive"},
   cryptosuite : [name : SuiteNames,
                  options : {[selectivePointers |-> <<PointerTo(0)>>]}],
   purpose : Purposes, verifyData : {NotYet}]

CallInit ==
  /\ ExchangeIdle
  /\ CodecIdle
  /\ \E n \in 1..MaxStatements :
       \E pointers \in PointerLists(n) :
         /\ callInput =
              CallInputFor(FullDocument(n), pointers,
                BaseProofFrom(CreateSignData(
                  [name |-> name, options |-> [mandatoryPointers |-> pointers]],
                  FullDocument(n), ProofOptions, Fill(HmacKeyLength, 9))))
         /\ callOp \in FirstOps(pointers)
  /\ callPc = "called"
  /\ hashPromise = NotYet
  /\ callRest = NotYet
  /\ signCalls = 0
  /\ callOutcome = NotYet

\* The ways hashCanonizedProof may settle: with the hash, or rejected with
\* an Error, or rejected with a value that is no Error.
HashSettlements ==
  {[rejected |-> FALSE, v |-> HashCanonizedProof(ProofOptions)],
   [rejected |-> TRUE, v |-> ErrorV("canonize failed")],
   [rejected |-> TRUE, v |-> Str(<<102, 97, 105, 108>>)]}

\* "returned" or "raised", by the outcome.
PcOf(outcome) == IF outcome.ok THEN "returned" ELSE "raised"

\* A createVerifyData begins: the name check, then the proof-hash
\* computation is started and left to run.
CallStart ==
  /\ callPc = "called" /\ callOp.fn = "createVerifyData"
  /\ IF callOp.cryptosuite.name # name
     THEN /\ callOutcome' = Err("TypeError")
          /\ callPc' = "raised"
          /\ UNCHANGED hashPromise
     ELSE /\ hashPromise' = [state |-> "pending"]
          /\ callPc' = "started"
          /\ UNCHANGED callOutcome
  /\ UNCHANGED <<exchangeVars, codecVars, callInput, callOp, callRest, signCalls>>

\* The proof-hash computation settles, at any time after it was started.
HashSettle ==
  /\ hashPromise # NotYet /\ hashPromise.state = "pending"
  /\ \E settled \in HashSettlements :
       hashPromise' = [state |-> "settled", rejected |-> settled.rejected, v |-> settled.v]
  /\ UNCHANGED <<exchangeVars, codecVars, callInput, callOp, callPc, callRest,
                 signCalls, callOutcome>>

\* The rest of a createVerifyData, as its suite has it: parsing,
\* canonicalization, grouping and the mandatory hash.
RestOf(op, input) ==
  CASE op.suite = "sign" ->
         CreateSignData(op.cryptosuite, input.document, ProofOptions,
                        Fill(HmacKeyLength, 9))
    [] op.suite = "verify" ->
         CreateVerifyData(op.cryptosuite, input.derived.document, input.derived.proof)
    [] op.suite = "confirm" ->
         ConfirmCreateVerifyData(op.cryptosuite, input.document, input.baseProof)

\* The createVerifyData runs up to the point where it awaits the proof
\* hash; what it throws before that point it raises.
CallRest ==
  /\ callPc = "started"
  /\ callRest' = RestOf(callOp, callInput)
  /\ IF callRest'.ok
     THEN callPc' = "joining" /\ UNCHANGED callOutcome
     ELSE callPc' = "raised" /\ callOutcome' = callRest'
  /\ UNCHANGED <<exchangeVars, codecVars, callInput, callOp, hashPromise, signCalls>>

\* The createVerifyData awaits the proof hash, which has settled, and ends.
CallJoin ==
  /\ callPc = "joining" /\ hashPromise.state = "settled"
  /\ callOutcome' = JoinProofHash(callRest, AwaitCaught(hashPromise))
  /\ callPc' = PcOf(callOutcome')
  /\ UNCHANGED <<exchangeVars, codecVars, callInput, callOp, hashPromise, callRest,
                 signCalls>>

\* What may be wrong with the verify data handed to createProofValue.
Malformations == {"none", "hmacKey", "mandatoryHash", "mandatoryPointers"}

Malformed(data, how) ==
  CASE how = "hmacKey" ->
         [data EXCEPT !.hmacKey = Bytes(Fill(HmacKeyLength - 1, 9))]
    [] how = "mandatoryHash" ->
         [data EXCEPT !.mandatoryHash = Bytes(Fill(HashLength - 1, 0))]
    [] how = "mandatoryPointers" ->
         [data EXCEPT !.mandatoryPointers = Arr(<<IntV(1)>>)]
    [] OTHER -> data

\* The framework calls createProofValue of the sign suite with the verify
\* data createVerifyData returned, as they are or malformed.
CallCreateProofValue ==
  /\ callPc = "returned" /\ callOp.suite = "sign" /\ callOp.fn = "createVerifyData"
  /\ \E suiteName \in SuiteNames, how \in Malformations :
       callOp' = [suite |-> "sign", fn |-> "createProofValue",
                  cryptosuite |-> [callOp.cryptosuite EXCEPT !.name = suiteName],
                  purpose |-> ProofPurpose,
                  verifyData |-> Malformed(callOutcome.v, how)]
  /\ callPc' = "proofValue"
  /\ callOutcome' = NotYet
  /\ signCalls' = 0
  /\ UNCHANGED <<exchangeVars, codecVars, callInput, hashPromise, callRest>>

\* _createBaseProofValue signs every non-mandatory statement.
ProofValueSignStatements ==
  /\ callPc = "proofValue"
  /\ signCalls' = signCalls + Len(callOp.verifyData.nonMandatory)
  /\ callPc' = "statementsSigned"
  /\ UNCHANGED <<exchangeVars, codecVars, callInput, callOp, hashPromise, callRest,
                 callOutcome>>

\* _createBaseProofValue serializes the data to sign, which validates them.
ProofValueSerializeVerifyData ==
  /\ callPc = "statementsSigned"
  /\ IF SerializeBaseVerifyData(
          [proofHash |-> callOp.verifyData.proofHash,
           publicKey |-> Bytes(PublicKeyOf(22)),
           mandatoryHash |-> callOp.verifyData.mandatoryHash]).ok
     THEN callPc' = "toSign" /\ UNCHANGED callOutcome
     ELSE callPc' = "raised" /\ callOutcome' = Err("TypeError")
  /\ UNCHANGED <<exchangeVars, codecVars, callInput, callOp, hashPromise, callRest,
                 signCalls>>

\* _createBaseProofValue signs the data with the signer's key.
ProofValueSignBase ==
  /\ callPc = "toSign"
  /\ signCalls' = signCalls + 1
  /\ callPc' = "baseSigned"
  /\ UNCHANGED <<exchangeVars, codecVars, callInput, callOp, hashPromise, callRest,
                 callOutcome>>

\* _createBaseProofValue serializes the base proof value, which validates
\* its params, and returns it.
ProofValueSerialize ==
  /\ callPc = "baseSigned"
  /\ callOutcome' = CreateBaseProofValue(callOp.verifyData, 21, 22)
  /\ callPc' = PcOf(callOutcome')
  /\ UNCHANGED <<exchangeVars, codecVars, callInput, callOp, hashPromise, callRest,
                 signCalls>>

\* The framework calls derive of the disclose suite on the base proof.
CallDerive ==
  /\ callPc = "called" /\ callOp.fn = "derive"
  /\ callOutcome' = Derive(callOp.cryptosuite, callInput.document, callOp.purpose,
                           callInput.baseProof)
  /\ callPc' = PcOf(callOutcome')
  /\ UNCHANGED <<exchangeVars, codecVars, callInput, callOp, hashPromise, callRest,
                 signCalls>>

CallNext ==
  \/ CallStart
  \/ HashSettle
  \/ CallRest
  \/ CallJoin
  \/ CallCreateProofValue
  \/ ProofValueSignStatements
  \/ ProofValueSerializeVerifyData
  \/ ProofValueSignBase
  \/ ProofValueSerialize
  \/ CallDerive

CallSpec == CallInit /\ [][CallNext]_vars

\* ------------------------------------------------------------ the claims

\* The absolute indexes the mandatory and the selective pointers select.
MandatorySet == Matching(document, signSuite.options.mandatoryPointers)
SelectiveSet == Matching(document, discloseSuite.options.selectivePointers)

\* The Verifier holds the derived proof as the Discloser made it.
UntamperedDerived ==
  presented.ok /\ presented.v.kind = "derived" /\ presented.v.tamper = "none"

\* The signatures of the base proof, as the Signer encoded them.
SignerSignatures == ParseBaseProofValue(baseProof.v.proofValue).v.signatures.v

\* C1: sign, derive, verify.  Whenever the mandatory and the selective
\* pointers together select at least one statement, derive succeeds, the
\* Verifier's createVerifyData succeeds on the derived proof, its
\* nonMandatory list is as long as the filtered signatures, signature i is
\* the one the Signer made over the statement at nonMandatory[i], the
\* mandatory hash is the Signer's, and verify returns true.
C1_SignDeriveVerify ==
  /\ (phase = "derived" /\ (MandatorySet \cup SelectiveSet) # {}) => derived.ok
  /\ (phase \in {"verifyData", "verified"} /\ UntamperedDerived) =>
       /\ verifyData.ok
       /\ Len(verifyData.v.nonMandatory) = Len(verifyData.v.signatures.v)
       /\ verifyData.v.mandatoryHash = signData.v.mandatoryHash
       /\ \A i \in 1..Len(verifyData.v.signatures.v) :
            \E j \in 1..Len(signData.v.nonMandatory) :
              /\ signData.v.nonMandatory[j] = verifyData.v.nonMandatory[i]
              /\ SignerSignatures[j] = verifyData.v.signatures.v[i]
  /\ (phase = "verified" /\ UntamperedDerived) => (verified.ok /\ verified.v)

\* C1 witness: a document of three statements, some mandatory, one filtered
\* signature, one statement withheld, verified to true.
C1_Witness ==
  /\ phase = "verified" /\ UntamperedDerived
  /\ Len(document) = 3 /\ Len(presented.v.document) = 2
  /\ MandatorySet # {} /\ Len(verifyData.v.signatures.v) = 1
  /\ verified.ok /\ verified.v

\* C2, as claimed: the base proof handed to the Verifier component yields
\* verify data (and then verifies to true).
C2_BaseProofVerifies ==
  (phase = "verifyData" /\ presented.v.kind = "base") => verifyData.ok

\* C2, amended: the Signer's base proof value is a base proof value that
\* parseBaseProofValue decodes, and the verify suite's createVerifyData
\* raises a TypeError on it, because it is no derived proof value; no
\* verify data comes of it.
C2_VerifySuiteRejectsBaseProof ==
  /\ (phase # "start" /\ phase # "signData") =>
       /\ baseProof.ok
       /\ IsBaseProofValue(baseProof.v.proofValue) = Ok(TRUE)
  /\ (presented.ok /\ presented.v.kind = "base") =>
       /\ phase = "verifyData"
       /\ ~verifyData.ok
       /\ verifyData.v = "TypeError"
       /\ verifyData.cause = "proofValue must be a derived proof"
       /\ ParseBaseProofValue(presented.v.proof.proofValue).ok

\* C2 witness: a base proof with signatures and a mandatory pointer was
\* handed to the Verifier.
C2_Witness ==
  /\ presented.ok /\ presented.v.kind = "base"
  /\ Len(signData.v.nonMandatory) = 2 /\ MandatorySet # {}
  /\ ~verifyData.ok

\* C3: a parsed proof whose signature count differs from the number of
\* non-mandatory statements makes verify raise; it returns neither false
\* nor true.
C3_CountMismatchRaises ==
  (/\ phase = "verified"
   /\ Len(verifyData.v.signatures.v) # Len(verifyData.v.nonMandatory)) =>
    ~verified.ok

\* C3 witness: a proof with a signature removed was verified.
C3_Witness ==
  /\ phase = "verified" /\ presented.v.tamper = "dropSignature"
  /\ Len(verifyData.v.signatures.v) + 1 = Len(verifyData.v.nonMandatory)
  /\ ~verified.ok

\* Whether every signature verifies against its statement under the public
\* key of the proof.
AllStatementsVerify ==
  \A i \in 1..Len(verifyData.v.signatures.v) :
    SM2Verify(KeyFrom(verifyData.v.publicKey.v).v, verifyData.v.nonMandatory[i],
              verifyData.v.signatures.v[i].v)

\* Whether the base signature verifies against proofHash ++ publicKey ++
\* mandatoryHash under the identity key.
BaseSignatureVerifies ==
  SM2Verify(presented.v.proof.verificationMethod,
            verifyData.v.proofHash.v \o verifyData.v.publicKey.v \o
              verifyData.v.mandatoryHash.v,
            verifyData.v.baseSignature.v)

\* C4: for a well-formed proof whose signature count matches, verify
\* returns a boolean, the conjunction of every per-statement check and the
\* base signature check.
C4_VerifyIsConjunction ==
  (/\ phase = "verified"
   /\ Len(verifyData.v.signatures.v) = Len(verifyData.v.nonMandatory)) =>
    /\ verified.ok
    /\ verified.v = (AllStatementsVerify /\ BaseSignatureVerifies)

\* C4 witness: one per-statement check fails while the base signature
\* verifies, and the result is false.
C4_Witness ==
  /\ phase = "verified" /\ presented.v.tamper = "flipSignature"
  /\ Len(verifyData.v.signatures.v) = 2
  /\ ~AllStatementsVerify /\ BaseSignatureVerifies
  /\ verified.ok /\ ~verified.v

\* C10, as claimed: when no pointer of either list selects a statement,
\* derive raises "Nothing selected for disclosure."; and with no selective
\* pointer and a non-empty mandatory set it succeeds.
C10_NothingSelectedRaises ==
  /\ (phase = "derived" /\ MandatorySet = {} /\ SelectiveSet = {}) =>
       (~derived.ok /\ derived.v = "Nothing selected for disclosure.")
  /\ (/\ phase = "derived"
      /\ discloseSuite.options.selectivePointers = <<>>
      /\ MandatorySet # {}) =>
       /\ derived.ok
       /\ ParseDisclosureProofValue(derived.v.proof.proofValue).v.signatures.v = <<>>

\* A value of exactly n bytes.
IsBytesOfLength(x, n) == x.t = "bytes" /\ Len(x.v) = n

\* Valid BaseProofParams, as the specification words them.
IsValidBaseProofParams(params) ==
  /\ IsBytesOfLength(params.baseSignature, 64)
  /\ IsBytesOfLength(params.publicKey, 35)
  /\ IsBytesOfLength(params.hmacKey, 32)
  /\ params.signatures.t = "arr"
  /\ \A i \in 1..Len(params.signatures.v) : IsBytesOfLength(params.signatures.v[i], 64)
  /\ params.mandatoryPointers.t = "arr"
  /\ \A i \in 1..Len(params.mandatoryPointers.v) : params.mandatoryPointers.v[i].t = "str"

\* C5: base round trip.  serializeBaseProofValue accepts every valid
\* BaseProofParams, and parseBaseProofValue applied to the string it
\* returns gives params equal to the given ones field by field, signatures
\* and pointers in the same order.
C5_BaseRoundTrip ==
  /\ (codecEncoder = "serialize" /\ codecKind = "base" /\
      IsValidBaseProofParams(codecParams)) => codecProofValue.ok
  /\ (codecStage = "parsed" /\ codecEncoder = "serialize" /\ codecKind = "base" /\
      codecParser = "base") =>
       /\ codecParsed.ok
       /\ codecParsed.v.baseSignature = codecParams.baseSignature
       /\ codecParsed.v.publicKey = codecParams.publicKey
       /\ codecParsed.v.hmacKey = codecParams.hmacKey
       /\ codecParsed.v.signatures = codecParams.signatures
       /\ codecParsed.v.mandatoryPointers = codecParams.mandatoryPointers

\* C5 witness: base params with two different signatures and two pointers
\* came back from the parser.
C5_Witness ==
  /\ codecStage = "parsed" /\ codecEncoder = "serialize" /\ codecKind = "base"
  /\ codecParser = "base" /\ codecParsed.ok
  /\ Len(codecParams.signatures.v) = 2
  /\ codecParams.signatures.v[1] # codecParams.signatures.v[2]
  /\ Len(codecParams.mandatoryPointers.v) = 2
  /\ codecParsed.v = codecParams

\* C6, as claimed: every DerivedProofParams that
\* serializeDisclosureProofValue accepts comes back equal from
\* parseDisclosureProofValue, the label map with the same keys and the
\* same value strings.
C6_DerivedRoundTrip ==
  (codecStage = "parsed" /\ codecEncoder = "serialize" /\ codecKind = "derived" /\
   codecParser = "derived") =>
    /\ codecParsed.ok
    /\ codecParsed.v.baseSignature = codecParams.baseSignature
    /\ codecParsed.v.publicKey = codecParams.publicKey
    /\ codecParsed.v.signatures = codecParams.signatures
    /\ MapEntries(codecParsed.v.labelMap.v) = MapEntries(codecParams.labelMap.v)
    /\ codecParsed.v.mandatoryIndexes = codecParams.mandatoryIndexes

\* Whether the bytes begin with the three bytes of the prefix.
HasPrefix(bytes, prefix) == Len(bytes) >= 3 /\ SubSeq(bytes, 1, 3) = prefix

\* C7 for the decoded bytes of the proof value that was parsed.
PrefixDiscriminates(bytes) ==
  /\ (codecParser = "derived" /\ ~HasPrefix(bytes, CBOR_PREFIX_DERIVED)) =>
       /\ ~codecParsed.ok
       /\ codecParsed.v = "TypeError"
       /\ codecParsed.cause = "proofValue must be a derived proof"
  /\ (codecParser = "base" /\ ~HasPrefix(bytes, CBOR_PREFIX_BASE)) =>
       /\ ~codecParsed.ok
       /\ codecParsed.v = "TypeError"
       /\ codecParsed.cause = "proofValue must be a base proof"
  /\ (codecParsed.ok /\ codecParser = "derived") =>
       (HasPrefix(bytes, CBOR_PREFIX_DERIVED) /\ DOMAIN codecParsed.v =
          {"baseSignature", "publicKey", "signatures", "labelMap", "mandatoryIndexes"})
  /\ (codecParsed.ok /\ codecParser = "base") =>
       (HasPrefix(bytes, CBOR_PREFIX_BASE) /\ DOMAIN codecParsed.v =
          {"baseSignature", "publicKey", "hmacKey", "signatures", "mandatoryPointers"})

\* C7: prefix discrimination.  The two prefixes differ; each parser raises,
\* for the prefix and before it decodes the payload, on every proof value
\* whose decoded bytes do not start with its own prefix, the values of the
\* other kind and the values shorter than three bytes among them; neither
\* returns params of the other kind.
C7_PrefixDiscrimination ==
  /\ CBOR_PREFIX_BASE # CBOR_PREFIX_DERIVED
  /\ codecStage = "parsed" =>
       PrefixDiscriminates(Base64UrlDecode(Slice(codecProofValue.v.v, 1)).v)

\* C7 witness: a base proof value that serializeBaseProofValue made was
\* given to parseDisclosureProofValue, which raised for the prefix.
C7_Witness ==
  /\ codecStage = "parsed" /\ codecEncoder = "serialize" /\ codecKind = "base"
  /\ codecParser = "derived"
  /\ ~codecParsed.ok /\ codecParsed.cause = "proofValue must be a derived proof"

\* Whether the base signature or one of the signatures is a byte array of
\* another length than 64.
HasSignatureOfOtherLength(params) ==
  \/ (params.baseSignature.t = "bytes" /\ Len(params.baseSignature.v) # 64)
  \/ /\ params.signatures.t = "arr"
     /\ \E i \in 1..Len(params.signatures.v) :
          params.signatures.v[i].t = "bytes" /\ Len(params.signatures.v[i].v) # 64

\* C8, as claimed: params with a base signature or a signature of another
\* length than 64 bytes are rejected by both serialize functions, and no
\* parse function returns such params.
C8_SignatureLengthValidated ==
  /\ (codecEncoder = "serialize" /\ HasSignatureOfOtherLength(codecParams)) =>
       ~codecProofValue.ok
  /\ (codecStage = "parsed" /\ codecParsed.ok) =>
       ~HasSignatureOfOtherLength(codecParsed.v)

\* A label-map key of the form c14n<non-negative integer>.
IsLabelKey(k) ==
  /\ k.t = "str" /\ Len(k.v) > 4 /\ SubSeq(k.v, 1, 4) = C14N
  /\ \A i \in 5..Len(k.v) : IsDigit(k.v[i])

\* A label-map value that has a multibase tag character before its bytes.
IsLabelValue(val) == val.t = "str" /\ Len(val.v) >= 1

IsValidLabelMap(labelMap) ==
  /\ labelMap.t = "map"
  /\ \A i \in 1..Len(labelMap.v) :
       IsLabelKey(labelMap.v[i][1]) /\ IsLabelValue(labelMap.v[i][2])

\* C9, as claimed: serializeDisclosureProofValue encodes and
\* parseDisclosureProofValue returns only label maps whose keys are of the
\* form c14n<non-negative integer> and whose values are one-character-tagged
\* multibase strings.
C9_LabelMapValidated ==
  /\ (codecEncoder = "serialize" /\ codecKind = "derived" /\ codecProofValue.ok) =>
       IsValidLabelMap(codecParams.labelMap)
  /\ (codecStage = "parsed" /\ codecParser = "derived" /\ codecParsed.ok) =>
       IsValidLabelMap(codecParsed.v.labelMap)

\* A createVerifyData has ended and its proof-hash computation was rejected.
EndedWithHashRejected ==
  /\ callOp.fn = "createVerifyData" /\ callPc \in {"returned", "raised"}
  /\ hashPromise # NotYet /\ hashPromise.state = "settled" /\ hashPromise.rejected

\* C11, as claimed: whenever the proof-hash computation of a sign, verify or
\* confirm createVerifyData is rejected, with whatever value and however it
\* interleaves with the rest, the operation raises and returns no verify
\* data; when the rest of the operation did not throw, what it raises is
\* the rejection.
C11_ProofHashFailureRaised ==
  EndedWithHashRejected =>
    /\ ~callOutcome.ok
    /\ callRest.ok => callOutcome.cause = hashPromise.v

\* Verify data that base-proof creation must refuse: a proof hash or a
\* mandatory hash that is not 32 bytes, an HMAC key that is not 32 bytes,
\* or mandatory pointers that are not an array of strings.
IsMalformedVerifyData(data) ==
  \/ ~IsBytesOfLength(data.proofHash, 32)
  \/ ~IsBytesOfLength(data.mandatoryHash, 32)
  \/ ~IsBytesOfLength(data.hmacKey, 32)
  \/ data.mandatoryPointers.t # "arr"
  \/ \E i \in 1..Len(data.mandatoryPointers.v) : data.mandatoryPointers.v[i].t # "str"

\* C12, as claimed: when an input of base-proof creation is malformed, no
\* sign function is called, for a statement or for the base signature,
\* and the operation ends with the validation error.
C12_SignerFailsFast ==
  (callOp # NotYet /\ callOp.fn = "createProofValue" /\
   IsMalformedVerifyData(callOp.verifyData)) =>
    /\ signCalls = 0
    /\ callPc \in {"returned", "raised"} => ~callOutcome.ok

\* C13, as claimed: an operation called with a cryptosuite of another name
\* ends with a TypeError, and with no verify data, proof value or derived
\* document; this for createVerifyData of the sign, verify and confirm
\* suites, createProofValue of the sign suite and derive of the disclose
\* suite.
C13_NameChecked ==
  (/\ callOp # NotYet
   /\ callOp.cryptosuite.name # name
   /\ callPc \in {"returned", "raised"}) =>
    /\ ~callOutcome.ok
    /\ callOutcome.v = "TypeError"

\* A derive call has returned or raised.
DeriveEnded == derived.ok \/ derived.v # NotYet.v

\* The proof object on the revealed document a derive call returned.
DerivedProofRef == heap[derived.v.ref].proof

\* C14: after a derive call, successful or failed, the document object and
\* the base proof object it was given are what they were before, the base
\* proof with its proof value and its context; after a successful one the
\* revealed document and its proof are new objects, the proof without a
\* context, and no other object carries the derived proof value.
C14_DeriveLeavesInputs ==
  DeriveEnded =>
    /\ heap[DocumentRef] = [statements |-> document]
    /\ heap[BaseProofRef] = baseProof.v
    /\ heap[BaseProofRef].context = ProofContext
    /\ derived.ok =>
         /\ derived.v.ref \notin {DocumentRef, BaseProofRef}
         /\ DerivedProofRef \notin {DocumentRef, BaseProofRef, derived.v.ref}
         /\ "context" \notin DOMAIN heap[DerivedProofRef]
         /\ IsDerivedProofValue(heap[DerivedProofRef].proofValue) = Ok(TRUE)
         /\ IsBaseProofValue(heap[BaseProofRef].proofValue) = Ok(TRUE)
         /\ \A ref \in (1..Len(heap)) \ {DerivedProofRef} :
              "proofValue" \in DOMAIN heap[ref] =>
                heap[ref].proofValue # heap[DerivedProofRef].proofValue

\* A derive call that returned a revealed document for a base proof that has
\* a context.
C14_Witness ==
  /\ phase = "derived"
  /\ derived.ok
  /\ "context" \in DOMAIN heap[BaseProofRef]
  /\ heap[DerivedProofRef].proofValue # heap[BaseProofRef].proofValue
  /\ Len(derived.v.document) < Len(document)

\* The absolute indexes of the statements the Signer signed one by one, in
\* ascending order: signature k of the base proof is over statement k of it.
NonMandatoryIndexes == SortedSeq((0..(Len(document) - 1)) \ MandatorySet)

\* The absolute indexes of the disclosed statements that are not mandatory,
\* in ascending order.
DisclosedNonMandatory == SortedSeq((MandatorySet \cup SelectiveSet) \ MandatorySet)

\* The signatures of the derived proof, as the Discloser encoded them.
DerivedSignatures == ParseDisclosureProofValue(derived.v.proof.proofValue).v.signatures.v

\* The signature, among those the Signer made, over the statement of an
\* absolute index.
SignatureOfIndex(signatures, index) ==
  signatures[CHOOSE j \in 1..Len(NonMandatoryIndexes) : NonMandatoryIndexes[j] = index]

\* Whether the kept signatures are the Signer's signatures of the disclosed
\* statements that are not mandatory, in their order, and no other.
IsFilteredFrom(kept, signatures) ==
  /\ Len(signatures) = Len(NonMandatoryIndexes)
  /\ Len(kept) = Cardinality(SelectiveSet \ MandatorySet)
  /\ kept = [k \in 1..Len(DisclosedNonMandatory) |->
               SignatureOfIndex(signatures, DisclosedNonMandatory[k])]
  /\ \A j \in 1..Len(NonMandatoryIndexes) :
       (\E k \in 1..Len(kept) : kept[k] = signatures[j])
         <=> NonMandatoryIndexes[j] \in SelectiveSet

\* C15: when derive has returned, the signatures of the derived proof are
\* exactly the Signer's signatures of the absolute indexes in S minus M, in
\* ascending order: the signature of a non-mandatory index is among them iff
\* the index is selective, none is of an undisclosed statement, and the k-th
\* is the signature of the k-th non-mandatory statement of the disclosed
\* ordering.
C15_SignaturesFiltered ==
  (phase = "derived" /\ derived.ok) => IsFilteredFrom(DerivedSignatures, SignerSignatures)

\* A derive call that walked over a mandatory index, dropped the signature
\* of an undisclosed statement and kept a later one.
C15_Witness ==
  /\ phase = "derived"
  /\ derived.ok
  /\ \E m \in MandatorySet, u \in 0..(Len(document) - 1), s \in SelectiveSet :
       /\ u \notin MandatorySet \cup SelectiveSet
       /\ s \notin MandatorySet
       /\ m < s /\ u < s
  /\ Len(DerivedSignatures) > 0
  /\ Len(DerivedSignatures) < Len(SignerSignatures)

\* The combined set C: the absolute indexes of the disclosed statements.
CombinedSet == MandatorySet \cup SelectiveSet

\* The mandatoryIndexes of the derived proof, as the Discloser encoded them.
DerivedMandatoryIndexes ==
  ParseDisclosureProofValue(derived.v.proof.proofValue).v.mandatoryIndexes.v

\* The position of a member within a set of indexes taken in ascending
\* order, counted from 0.
PositionWithin(C, member) == Cardinality({c \in C : c < member})

\* Whether a list of integers is the list of the positions within C of the
\* members of M, strictly increasing, within 0..|C|-1 and of length |M|.
ArePositionsOf(indexes, M, C) ==
  /\ Len(indexes) = Cardinality(M)
  /\ \A j \in 1..Len(indexes) :
       /\ indexes[j].t = "int"
       /\ indexes[j].v >= 0
       /\ indexes[j].v < Cardinality(C)
       /\ indexes[j].v = PositionWithin(C, SortedSeq(M)[j])
  /\ \A j \in 1..(Len(indexes) - 1) : indexes[j].v < indexes[j + 1].v

\* C16: when derive has returned, the mandatoryIndexes of the derived proof
\* are the positions within the combined set C of the members of the
\* mandatory set M: strictly increasing, every entry at least 0 and less
\* than |C|, and |M| of them.
C16_MandatoryIndexesRelative ==
  (phase = "derived" /\ derived.ok) =>
    ArePositionsOf(DerivedMandatoryIndexes, MandatorySet, CombinedSet)

\* A derive call with a mandatory statement after a disclosed one that is
\* not mandatory, and an undisclosed statement before both: the position
\* of the mandatory statement is neither 0 nor its absolute index.
C16_Witness ==
  /\ phase = "derived"
  /\ derived.ok
  /\ \E m \in MandatorySet :
       /\ PositionWithin(CombinedSet, m) > 0
       /\ PositionWithin(CombinedSet, m) < m
  /\ Len(DerivedMandatoryIndexes) > 0

\* The confirm suite was called on the Signer's base proof.
ConfirmCalled == presented.ok /\ presented.v.kind = "confirm"

\* C17, as claimed: createVerifyData of the confirm suite on the Signer's
\* base proof succeeds with the nonMandatory list the Signer signed,
\* element by element and in the same order, and with as many signatures;
\* signature i verifies against nonMandatory[i], and verify returns true.
C17_SignConfirmAgree ==
  ConfirmCalled =>
    /\ verifyData.ok
    /\ verifyData.v.nonMandatory = signData.v.nonMandatory
    /\ verifyData.v.mandatoryHash = signData.v.mandatoryHash
    /\ Len(verifyData.v.signatures.v) = Len(verifyData.v.nonMandatory)
    /\ AllStatementsVerify
    /\ phase = "verified" => verified = Ok(TRUE)

====
